---- MODULE Spec2Model ----
(***************************************************************************)
(* Webhook relay of src/app/api/webhook/route.ts: the POST handler that    *)
(* verifies the x-notion-signature header, derives a record from the       *)
(* Notion payload and upserts it into a Webflow collection by slug.        *)
(*                                                                         *)
(* Text is modelled at two grains.  A raw request body is a sequence of    *)
(* JSON lexemes (punctuation, one whitespace lexeme, the literal null and  *)
(* quoted strings); one lexeme stands for one byte of the body.  A header  *)
(* value is a sequence of character codes, UTF-8 encoded by BufferFrom.    *)
(***************************************************************************)
EXTENDS Integers, Sequences, FiniteSets, TLC

VARIABLES
    NOTION_WEBHOOK_VERIFICATION_TOKEN, \* the configured secret (route.ts:23)
    pc,               \* per request: the handler's position
    rawBody,          \* per request: the body text as received
    headerSignature,  \* per request: the x-notion-signature header
    body,             \* per request: JSON.parse(rawBody)
    notionData,       \* per request: the derived record
    fetched,          \* per request: the last answer of the remote API
    existing,         \* per request: the decoded lookup response
    calls,            \* per request: the outbound calls issued, in order
    response,         \* per request: the outcome of the handler
    steps,            \* per request: the statements executed, in order
    items,            \* the remote collection
    sBody,            \* signature harness: body
    sHeader,          \* signature harness: header
    sMut,             \* signature harness: what was changed after signing
    sResult           \* signature harness: result of isValidSignature

handlerVars == <<pc, rawBody, headerSignature, body, notionData, fetched,
                 existing, calls, response, steps, items>>
sigVars == <<sBody, sHeader, sMut, sResult>>
vars == <<NOTION_WEBHOOK_VERIFICATION_TOKEN, handlerVars, sigVars>>

-----------------------------------------------------------------------------
(* Bounds *)

\* number of inbound requests (handled concurrently)
NumRequests == 2
\* longest body of the signature harness
MaxBodyLen == 3
\* hex digits of the modelled digest (SHA-256 has 64)
DigestHexLen == 4

Requests == 1..NumRequests

-----------------------------------------------------------------------------
(* JSON values *)

Undefined == [t |-> "undefined"]
Null == [t |-> "null"]
Str(s) == [t |-> "str", v |-> s]
Obj(f) == [t |-> "obj", v |-> f]
Arr(q) == [t |-> "arr", v |-> q]
EmptyObject == Obj([k \in {} |-> Undefined])

\* the lexemes that are not quoted strings
Punctuation == {"{", "}", "[", "]", ":", ",", " "}
IsStringLexeme(tok) == tok \notin Punctuation /\ tok # "null"

RECURSIVE SkipWs(_, _)
SkipWs(toks, i) ==
    IF i <= Len(toks) /\ toks[i] = " " THEN SkipWs(toks, i + 1) ELSE i

ParseFail == [ok |-> FALSE, val |-> Undefined, next |-> 0]
ParseOk(v, n) == [ok |-> TRUE, val |-> v, next |-> n]

RECURSIVE ParseAt(_, _, _, _)
\* The recursive-descent parser.  what = "value": the value starting at i.
\* what = "members": the members of an object, after "{" or ","; acc holds
\* the members so far.  what = "elements": the elements of an array, after
\* "[" or ","; acc holds the elements so far.
ParseAt(what, toks, i, acc) ==
    IF what = "members"
    THEN LET k == SkipWs(toks, i)
             c == SkipWs(toks, k + 1)
         IN  IF k > Len(toks) \/ ~IsStringLexeme(toks[k]) THEN ParseFail
             ELSE IF c > Len(toks) \/ toks[c] # ":" THEN ParseFail
             ELSE LET r == ParseAt("value", toks, c + 1, <<>>)
                      e == SkipWs(toks, r.next)
                      more == (toks[k] :> r.val) @@ acc
                  IN  IF ~r.ok \/ e > Len(toks) THEN ParseFail
                      ELSE IF toks[e] = ","
                           THEN ParseAt("members", toks, e + 1, more)
                      ELSE IF toks[e] = "}" THEN ParseOk(Obj(more), e + 1)
                      ELSE ParseFail
    ELSE IF what = "elements"
    THEN LET r == ParseAt("value", toks, i, <<>>)
             e == SkipWs(toks, r.next)
         IN  IF ~r.ok \/ e > Len(toks) THEN ParseFail
             ELSE IF toks[e] = ","
                  THEN ParseAt("elements", toks, e + 1, Append(acc, r.val))
             ELSE IF toks[e] = "]"
                  THEN ParseOk(Arr(Append(acc, r.val)), e + 1)
             ELSE ParseFail
    ELSE LET j == SkipWs(toks, i)
             k == SkipWs(toks, j + 1)
         IN  IF j > Len(toks) THEN ParseFail
             ELSE IF toks[j] = "{"
                  THEN IF k <= Len(toks) /\ toks[k] = "}"
                       THEN ParseOk(EmptyObject, k + 1)
                       ELSE ParseAt("members", toks, j + 1, EmptyObject.v)
             ELSE IF toks[j] = "["
                  THEN IF k <= Len(toks) /\ toks[k] = "]"
                       THEN ParseOk(Arr(<<>>), k + 1)
                       ELSE ParseAt("elements", toks, j + 1, <<>>)
             ELSE IF toks[j] = "null" THEN ParseOk(Null, j + 1)
             ELSE IF toks[j] \in Punctuation THEN ParseFail
             ELSE ParseOk(Str(toks[j]), j + 1)
ParseValue(toks, i) == ParseAt("value", toks, i, <<>>)

\* JSON.parse: one value, whitespace around it, nothing after it
JSONparse(toks) ==
    LET r == ParseValue(toks, 1)
    IN  IF r.ok /\ SkipWs(toks, r.next) > Len(toks) THEN r ELSE ParseFail

\* o.key of JavaScript; throws on null and undefined (see Throws)
Get(o, key) ==
    IF o.t = "obj" /\ key \in DOMAIN o.v THEN o.v[key] ELSE Undefined
\* a[0] of JavaScript
First(a) ==
    IF a.t = "arr" /\ Len(a.v) > 0 THEN a.v[1] ELSE Undefined
Nullish(o) == o.t \in {"undefined", "null"}
\* !x of JavaScript
Falsy(o) == Nullish(o) \/ (o.t = "str" /\ o.v = "")

-----------------------------------------------------------------------------
(* Signature: calculateNotionSignature and isValidSignature *)

\* every lexeme a body of the model is made of, in a fixed order
Lexemes == <<"{", "}", "[", "]", ":", ",", " ", "null",
             "pageId", "properties", "Name", "Slug", "Content", "title",
             "rich_text", "plain_text", "verification_token",
             "p1", "p2", "Hello", "World", "hello", "Body text",
             "shh", "bad", "">>
\* the position of each lexeme in Lexemes
LexemeCodes ==
    [tok \in {Lexemes[i] : i \in 1..Len(Lexemes)} |->
        CHOOSE i \in 1..Len(Lexemes) : Lexemes[i] = tok]
TokCode(tok) == LexemeCodes[tok]

\* the digest is a number below 16^DigestHexLen
RECURSIVE Pow16(_)
Pow16(n) == IF n = 0 THEN 1 ELSE 16 * Pow16(n - 1)
HashBase == 31
HashModulus == Pow16(DigestHexLen)
RECURSIVE HmacFold(_, _, _, _)
\* h after absorbing toks[lo..hi], byte by byte from the left (the range is
\* halved to keep the evaluation shallow)
HmacFold(h, toks, lo, hi) ==
    IF lo > hi THEN h
    ELSE IF lo = hi
         THEN (h * HashBase + TokCode(toks[lo])) % HashModulus
    ELSE LET mid == (lo + hi) \div 2
             left == HmacFold(h, toks, lo, mid)
         IN  IF left >= 0 THEN HmacFold(left, toks, mid + 1, hi) ELSE 0
\* createHmac('sha256', key).update(data): keyed, over every byte of data
Hmac(key, data) == HmacFold(TokCode(key), data, 1, Len(data))

\* character codes of the hex digits 0-9 and a-f
HexChar(d) == IF d < 10 THEN 48 + d ELSE 87 + d
RECURSIVE HexDigits(_, _)
\* digest('hex'): n written with len lower-case hex digits
HexDigits(n, len) ==
    IF len = 0 THEN <<>>
    ELSE Append(HexDigits(n \div 16, len - 1), HexChar(n % 16))

\* the characters of "sha256="
Sha256Prefix == <<115, 104, 97, 50, 53, 54, 61>>

\* JSON.stringify(JSON.parse(raw)) for a body that is JSON: the whitespace
\* between the lexemes is gone
Reserialised(raw) == SelectSeq(raw, LAMBDA tok : tok # " ")
\* the signature computed over the re-serialised body
calculateNotionSignatureReserialised(raw, verificationToken) ==
    Sha256Prefix
        \o HexDigits(Hmac(verificationToken, Reserialised(raw)), DigestHexLen)

calculateNotionSignature(raw, verificationToken) ==
    Sha256Prefix \o HexDigits(Hmac(verificationToken, raw), DigestHexLen)

\* what the sender of a webhook puts in x-notion-signature for body raw
SenderSignature(raw, key) ==
    Sha256Prefix \o HexDigits(Hmac(key, raw), DigestHexLen)

\* the UTF-8 bytes of one character (codes below 2048)
Utf8(c) == IF c < 128 THEN <<c>> ELSE <<192 + (c \div 64), 128 + (c % 64)>>
RECURSIVE BufferFrom(_)
BufferFrom(str) ==
    IF str = <<>> THEN <<>> ELSE Utf8(Head(str)) \o BufferFrom(Tail(str))

\* a comparison that looks at the first byte only
timingSafeEqualFirstByte(a, b) == Len(a) = 0 \/ a[1] = b[1]

\* crypto.timingSafeEqual on buffers of one length: every byte is compared
timingSafeEqual(a, b) == \A i \in 1..Len(a) : a[i] = b[i]

\* a header is absent (null) or a string
NullHeader == [present |-> FALSE, val |-> <<>>]
Header(str) == [present |-> TRUE, val |-> str]

\* isValidSignature without the test of the secret
isValidSignatureNoSecretCheck(raw, hdr, verificationToken) ==
    IF ~hdr.present \/ hdr.val = <<>> THEN FALSE
    ELSE LET calc == calculateNotionSignature(raw, verificationToken)
             a == BufferFrom(calc)
             b == BufferFrom(hdr.val)
         IN  IF Len(a) # Len(b) THEN FALSE ELSE timingSafeEqual(a, b)

\* isValidSignature that stops after comparing the lengths
isValidSignatureLengthOnly(raw, hdr, verificationToken) ==
    IF ~hdr.present \/ hdr.val = <<>> \/ verificationToken = "" THEN FALSE
    ELSE LET calc == calculateNotionSignature(raw, verificationToken)
             a == BufferFrom(calc)
             b == BufferFrom(hdr.val)
         IN  Len(a) = Len(b)

isValidSignature(raw, hdr, verificationToken) ==
    IF ~hdr.present \/ hdr.val = <<>> \/ verificationToken = "" THEN FALSE
    ELSE LET calc == calculateNotionSignature(raw, verificationToken)
             a == BufferFrom(calc)
             b == BufferFrom(hdr.val)
         IN  IF Len(a) # Len(b) THEN FALSE ELSE timingSafeEqual(a, b)

\* the byte positions a comparison with early exit looks at: up to the first
\* difference
shortCircuitSteps(a, b) ==
    LET differ == {i \in 1..Len(a) : a[i] # b[i]}
        stop == IF differ = {} THEN Len(a)
                ELSE CHOOSE i \in differ : \A j \in differ : i <= j
    IN  [i \in 1..stop |-> i]

\* the byte positions crypto.timingSafeEqual looks at: all of them, in order,
\* whatever the bytes are
timingSafeEqualSteps(a, b) == [i \in 1..Len(a) |-> i]

\* what isValidSignature executes: the statements it reaches (by line) and
\* the byte positions its comparison looks at
isValidSignatureSteps(raw, hdr, verificationToken) ==
    IF ~hdr.present \/ hdr.val = <<>> \/ verificationToken = ""
    THEN [lines |-> <<30>>, bytes |-> <<>>]
    ELSE LET calc == calculateNotionSignature(raw, verificationToken)
             a == BufferFrom(calc)
             b == BufferFrom(hdr.val)
         IN  IF Len(a) # Len(b)
             THEN [lines |-> <<30, 31, 32, 33, 34>>, bytes |-> <<>>]
             ELSE [lines |-> <<30, 31, 32, 33, 34, 35>>,
                   bytes |-> timingSafeEqualSteps(a, b)]

-----------------------------------------------------------------------------
(* Inputs: the request bodies and headers the model draws from *)

CommaJoin(a, b) == a \o <<",">> \o b
\* "field":[{"plain_text":"text"}]
Runs(field, text) ==
    <<field, ":", "[", "{", "plain_text", ":", text, "}", "]">>
NameProp(text) == <<"Name", ":", "{">> \o Runs("title", text) \o <<"}">>
SlugProp(text) == <<"Slug", ":", "{">> \o Runs("rich_text", text) \o <<"}">>
ContentProp(text) ==
    <<"Content", ":", "{">> \o Runs("rich_text", text) \o <<"}">>
Event(pageId, props) ==
    <<"{", "pageId", ":", pageId, ",", "properties", ":", "{">>
        \o props \o <<"}", "}">>

\* {"pageId":"p1","properties":{"Name":{"title":[{"plain_text":"Hello"}]},
\*  "Slug":{"rich_text":[{"plain_text":"hello"}]}}}
BodyHello == Event("p1", CommaJoin(NameProp("Hello"), SlugProp("hello")))
\* the same JSON value with whitespace in it
BodyHelloSpaced ==
    <<"{", " ">> \o Tail(Event("p1", CommaJoin(NameProp("Hello"),
                                               SlugProp("hello"))))
\* the same JSON value with the keys of properties in the other order
BodyHelloReordered ==
    Event("p1", CommaJoin(SlugProp("hello"), NameProp("Hello")))
\* "Content":{"rich_text":[{"plain_text":"first"},{"plain_text":"second"}]}
ContentRuns(first, second) ==
    <<"Content", ":", "{", "rich_text", ":", "[",
      "{", "plain_text", ":", first, "}", ",",
      "{", "plain_text", ":", second, "}", "]", "}">>
\* another page with the same slug, and a content of two runs
BodyWorld ==
    Event("p2", CommaJoin(CommaJoin(NameProp("World"), SlugProp("hello")),
                          ContentRuns("Body text", "Hello")))
\* properties without Name
BodyNoName == Event("p1", <<>>)
\* no properties at all
BodyNoProperties == <<"{", "pageId", ":", "p1", "}">>
\* Slug without a rich_text list
BodySlugNoRuns ==
    Event("p1", CommaJoin(NameProp("Hello"), <<"Slug", ":", "{", "}">>))
\* Content without a rich_text list
BodyContentNoRuns ==
    Event("p1", CommaJoin(NameProp("Hello"), <<"Content", ":", "{", "}">>))
\* empty run lists
BodyEmptyRuns ==
    Event("p1", CommaJoin(<<"Name", ":", "{", "title", ":", "[", "]", "}">>,
                          <<"Slug", ":", "{", "rich_text", ":", "[", "]", "}">>))
\* a slug that is the empty string
BodyEmptySlug == Event("p1", CommaJoin(NameProp("Hello"), SlugProp("")))
\* not JSON: the closing brace is missing
BodyTruncated == SubSeq(BodyHello, 1, Len(BodyHello) - 1)
BodyNull == <<"null">>
\* {"verification_token":"tok"}
BodyToken(tok) == <<"{", "verification_token", ":", tok, "}">>
\* an event that also carries a verification_token
BodyTokenEvent ==
    <<"{", "verification_token", ":", "shh", ",">> \o Tail(BodyHello)

RawBodies ==
    {BodyHello, BodyHelloSpaced, BodyHelloReordered, BodyWorld, BodyNoName,
     BodyNoProperties, BodySlugNoRuns, BodyContentNoRuns, BodyEmptyRuns,
     BodyEmptySlug,
     BodyTruncated, BodyNull,
     BodyToken("shh"), BodyToken("bad"), BodyToken(""), BodyTokenEvent}

Secrets == {"", "shh"}

\* str with the character at position i replaced by c
ReplaceAt(str, i, c) == [str EXCEPT ![i] = c]

\* damaged copies of a signature: one character changed, the last character
\* dropped, and a character outside ASCII (two bytes in UTF-8) put in
Damaged(sig) ==
    {ReplaceAt(sig, Len(sig), IF sig[Len(sig)] = 48 THEN 49 ELSE 48),
     SubSeq(sig, 1, Len(sig) - 1),
     ReplaceAt(sig, 1, 233)}

\* the headers sent with body raw: none in every case; the signature of raw
\* under the secret "shh", except for the handshake bodies with another
\* token; with BodyHello and BodyToken("shh") also the empty header and a
\* signature made with the empty secret; with BodyHello damaged signatures;
\* with the bodies that parse to the value of BodyHello, and with the body
\* that is not JSON, the signature of BodyHello
HeadersFor(raw) ==
    LET good == SenderSignature(raw, "shh")
    IN  {NullHeader}
        \cup (IF raw \in {BodyToken("bad"), BodyToken("")}
              THEN {} ELSE {Header(good)})
        \cup (IF raw \in {BodyHello, BodyToken("shh")}
              THEN {Header(<<>>), Header(SenderSignature(raw, ""))}
              ELSE {})
        \cup (IF raw = BodyHello THEN {Header(h) : h \in Damaged(good)} ELSE {})
        \cup (IF raw \in {BodyHelloSpaced, BodyHelloReordered, BodyTruncated}
              THEN {Header(SenderSignature(BodyHello, "shh"))}
              ELSE {})

-----------------------------------------------------------------------------
(* The remote collection (Webflow), as the relay's calls see it *)

\* an item identifier
ItemId(n) == [t |-> "id", v |-> n]
\* a stored item; fieldData holds the fields that were sent
Item(n, fields, archived, draft) ==
    [id |-> n, fieldData |-> fields, isArchived |-> archived, isDraft |-> draft]

OldItem == Item(1, [k \in {"name", "slug"} |->
                       IF k = "name" THEN Str("Old") ELSE Str("hello")],
                FALSE, TRUE)
InitialStores == {<<>>, <<OldItem>>}

RECURSIVE MaxId(_)
MaxId(store) ==
    IF store = <<>> THEN 0
    ELSE LET m == MaxId(Tail(store))
         IN  IF Head(store).id > m THEN Head(store).id ELSE m

HasSlug(item, slugParam) ==
    /\ "slug" \in DOMAIN item.fieldData
    /\ item.fieldData["slug"].t = "str"
    /\ item.fieldData["slug"].v = slugParam

RECURSIVE Matching(_, _)
\* the items whose slug is slugParam, in the order of the collection
Matching(store, slugParam) ==
    IF store = <<>> THEN <<>>
    ELSE LET rest == Matching(Tail(store), slugParam)
         IN  IF HasSlug(Head(store), slugParam)
             THEN <<Obj("_id" :> ItemId(Head(store).id))>> \o rest
             ELSE rest

\* an HTTP answer of the remote API: res.ok, whether res.json() succeeds,
\* and the JSON value it then yields
Answer(ok, decodable, json) == [ok |-> ok, decodable |-> decodable, json |-> json]
NoAnswer == Answer(FALSE, FALSE, Undefined)

\* GET .../items?slug=slugParam answered from the collection
ListResponse(store, slugParam) ==
    Obj("items" :> Arr(Matching(store, slugParam)))
\* the body of an error answer (a non-2xx status)
ErrorResponse == Obj("code" :> Str("error"))
\* the body of an accepted write
ItemResponse(n) == Obj("id" :> ItemId(n))

\* PATCH: the fields sent replace the stored ones, the others are kept
ApplyPatch(store, n, payload) ==
    [i \in 1..Len(store) |->
        IF store[i].id = n
        THEN Item(n, payload.fieldData @@ store[i].fieldData,
                  payload.isArchived, payload.isDraft)
        ELSE store[i]]
\* POST: a new item with a fresh identifier
ApplyPost(store, payload) ==
    Append(store, Item(MaxId(store) + 1, payload.fieldData,
                       payload.isArchived, payload.isDraft))
Exists(store, n) == \E i \in 1..Len(store) : store[i].id = n

-----------------------------------------------------------------------------
(* The handler's helpers *)

NoResponse == [kind |-> "none", status |-> 0, text |-> "", json |-> EmptyObject]
\* an exception nobody catches: the handler produces no Response
Fault == [kind |-> "fault", status |-> 0, text |-> "", json |-> EmptyObject]
\* new Response(text, { status })
TextResponse(st, txt) ==
    [kind |-> "text", status |-> st, text |-> txt, json |-> EmptyObject]
\* new Response(JSON.stringify(value)): the status defaults to 200
JsonResponse(value) ==
    [kind |-> "json", status |-> 200, text |-> "", json |-> value]
SuccessBody == Obj("success" :> TRUE)
ProcessedBody(webflowResponse) ==
    Obj(("success" :> TRUE) @@ ("webflowResponse" :> webflowResponse))

\* !headerSignature
HeaderMissing(hdr) == ~hdr.present \/ hdr.val = <<>>
\* body?.verification_token
VerificationTokenOf(b) ==
    IF Nullish(b) THEN Undefined ELSE Get(b, "verification_token")
\* the comparison with === in place of !==
DiffersFromInverted(tok, expected) == tok.t = "str" /\ tok.v = expected

\* body.verification_token !== NOTION_WEBHOOK_VERIFICATION_TOKEN
DiffersFrom(tok, expected) == tok.t # "str" \/ tok.v # expected

NoData == [threw |-> FALSE, id |-> Undefined, title |-> Undefined,
           slug |-> Undefined, content |-> Undefined]
Threw == [NoData EXCEPT !.threw = TRUE]

\* the last run in place of the first
LastPlainText(runs) ==
    IF runs.t = "arr" /\ Len(runs.v) > 0
    THEN Get(runs.v[Len(runs.v)], "plain_text") ELSE Undefined

\* x[0]?.plain_text
FirstPlainText(runs) ==
    IF Nullish(First(runs)) THEN Undefined ELSE Get(First(runs), "plain_text")
\* the chain with ?. at every step: body.properties?.Name?.title?.[0]
TitleThrowsNever(props) == FALSE

\* body.properties?.Name.title[0]?.plain_text
TitleThrows(props) ==
    /\ ~Nullish(props)
    /\ \/ Nullish(Get(props, "Name"))
       \/ Nullish(Get(Get(props, "Name"), "title"))
TitleOf(props) ==
    IF Nullish(props) THEN Undefined
    ELSE FirstPlainText(Get(Get(props, "Name"), "title"))
\* body.properties?.<key>?.rich_text[0]?.plain_text, key Slug or Content
RichTextThrows(props, key) ==
    /\ ~Nullish(props)
    /\ ~Nullish(Get(props, key))
    /\ Nullish(Get(Get(props, key), "rich_text"))
RichTextOf(props, key) ==
    IF Nullish(props) \/ Nullish(Get(props, key)) THEN Undefined
    ELSE FirstPlainText(Get(Get(props, key), "rich_text"))

\* the object literal of lines 65-70
DeriveNotionData(b) ==
    IF Nullish(b) THEN Threw
    ELSE LET props == Get(b, "properties")
         IN  IF \/ TitleThrows(props)
                \/ RichTextThrows(props, "Slug")
                \/ RichTextThrows(props, "Content")
             THEN Threw
             ELSE [threw |-> FALSE,
                   id |-> Get(b, "pageId"),
                   title |-> TitleOf(props),
                   slug |-> RichTextOf(props, "Slug"),
                   content |-> RichTextOf(props, "Content")]

\* `${value}` of a template literal
TemplateString(value) ==
    IF value.t = "str" THEN value.v
    ELSE IF value.t = "undefined" THEN "undefined"
    ELSE IF value.t = "null" THEN "null"
    ELSE "[object Object]"

\* a write body without the slug
WritePayloadNoSlug(data) ==
    LET all == [k \in {"name", "content"} |->
                    IF k = "name" THEN data.title ELSE data.content]
        sent == {k \in DOMAIN all : all[k].t # "undefined"}
    IN  [isArchived |-> FALSE, isDraft |-> FALSE,
         fieldData |-> [k \in sent |-> all[k]]]

\* JSON.stringify of the write body: undefined members are left out
WritePayload(data) ==
    LET all == [k \in {"name", "slug", "content"} |->
                    IF k = "name" THEN data.title
                    ELSE IF k = "slug" THEN data.slug ELSE data.content]
        sent == {k \in DOMAIN all : all[k].t # "undefined"}
    IN  [isArchived |-> FALSE, isDraft |-> FALSE,
         fieldData |-> [k \in sent |-> all[k]]]
NoPayload == [isArchived |-> FALSE, isDraft |-> FALSE,
              fieldData |-> [k \in {} |-> Undefined]]

\* a lookup whose query leaves the slug out
GetCallNoSlug(slugParam) ==
    [method |-> "GET", slug |-> "", itemId |-> 0, payload |-> NoPayload]

GetCall(slugParam) ==
    [method |-> "GET", slug |-> slugParam, itemId |-> 0, payload |-> NoPayload]
\* an update that leaves the item a draft
PatchCallKeepsDraft(n, payload) ==
    [method |-> "PATCH", slug |-> "", itemId |-> n,
     payload |-> [payload EXCEPT !.isDraft = TRUE]]

PatchCall(n, payload) ==
    [method |-> "PATCH", slug |-> "", itemId |-> n, payload |-> payload]
PostCall(payload) ==
    [method |-> "POST", slug |-> "", itemId |-> 0, payload |-> payload]

\* the test reduced to its first operand
HasItemsTruthy(ex) == ~Falsy(ex)

\* the test without Array.isArray: existing.items && existing.items.length > 0
HasItemsNoArrayCheck(ex) ==
    /\ ~Falsy(ex)
    /\ ~Falsy(Get(ex, "items"))
    /\ Get(ex, "items").t = "arr" => Len(Get(ex, "items").v) > 0

\* existing && Array.isArray(existing.items) && existing.items.length > 0
HasItems(ex) ==
    /\ ~Falsy(ex)
    /\ Get(ex, "items").t = "arr"
    /\ Len(Get(ex, "items").v) > 0
\* the identifier read from id, which the items of a lookup do not have
FirstItemIdFromId(ex) ==
    LET id == Get(First(Get(ex, "items")), "id")
    IN  IF id.t = "id" THEN id.v ELSE 0

\* existing.items[0]._id; 0 stands for an identifier that is not there
\* (the URL then ends in "undefined")
FirstItemId(ex) ==
    LET id == Get(First(Get(ex, "items")), "_id")
    IN  IF id.t = "id" THEN id.v ELSE 0

\* a decoding that keeps the body of a successful answer only
DecodeJsonOkOnly(answer) ==
    IF answer.ok /\ answer.decodable THEN answer.json ELSE EmptyObject

\* res.json().catch(() => ({}))
DecodeJson(answer) == IF answer.decodable THEN answer.json ELSE EmptyObject

\* the two branches exchanged
WriteCallSwapped(ex, data) ==
    IF ~HasItems(ex) THEN PatchCall(FirstItemId(ex), WritePayload(data))
    ELSE PostCall(WritePayload(data))

\* the write issued after the lookup returned ex
WriteCall(ex, data) ==
    IF HasItems(ex) THEN PatchCall(FirstItemId(ex), WritePayload(data))
    ELSE PostCall(WritePayload(data))


-----------------------------------------------------------------------------
(* The handler POST, one action per statement group *)

\* The handler runs on one event loop: from a resumption to its next await a
\* request runs alone.  Lines 42-101 hold no await, so while a request is
\* between JSON.parse and the fetch of the lookup no other request moves.
Synchronous == {"route", "verify", "derive", "upsert"}
Scheduled(r) == \A q \in Requests \ {r} : pc[q] \notin Synchronous

Step(r, name) == steps' = [steps EXCEPT ![r] = Append(@, name)]
Goto(r, label) == pc' = [pc EXCEPT ![r] = label]
Respond(r, resp) == response' = [response EXCEPT ![r] = resp]

Init ==
    /\ NOTION_WEBHOOK_VERIFICATION_TOKEN \in Secrets
    /\ pc = [r \in Requests |-> "idle"]
    /\ rawBody = [r \in Requests |-> <<>>]
    /\ headerSignature = [r \in Requests |-> NullHeader]
    /\ body = [r \in Requests |-> Undefined]
    /\ notionData = [r \in Requests |-> NoData]
    /\ fetched = [r \in Requests |-> NoAnswer]
    /\ existing = [r \in Requests |-> Undefined]
    /\ calls = [r \in Requests |-> <<>>]
    /\ response = [r \in Requests |-> NoResponse]
    /\ steps = [r \in Requests |-> <<>>]
    /\ items \in InitialStores
    /\ sBody = <<>>
    /\ sHeader = NullHeader
    /\ sMut = "none"
    /\ sResult = "unset"

\* a request arrives (requests are numbered in the order of their arrival);
\* line 40: rawBody = await req.text()
Receive(r) ==
    /\ pc[r] = "idle"
    /\ Scheduled(r)
    /\ \A q \in Requests : q < r => pc[q] # "idle"
    /\ \E raw \in RawBodies : \E hdr \in HeadersFor(raw) :
          /\ rawBody' = [rawBody EXCEPT ![r] = raw]
          /\ headerSignature' = [headerSignature EXCEPT ![r] = hdr]
    /\ Goto(r, "parse")
    /\ Step(r, "text")
    /\ UNCHANGED <<NOTION_WEBHOOK_VERIFICATION_TOKEN, body, notionData,
                   fetched, existing, calls, response, items, sigVars>>

\* the parse inside a try block whose catch answers 400
ParseCaught(r) ==
    /\ pc[r] = "parse"
    /\ Scheduled(r)
    /\ LET p == JSONparse(rawBody[r])
       IN  IF p.ok
           THEN /\ body' = [body EXCEPT ![r] = p.val]
                /\ Goto(r, "route")
                /\ UNCHANGED response
           ELSE /\ Goto(r, "done")
                /\ Respond(r, TextResponse(400, "Invalid JSON"))
                /\ UNCHANGED body
    /\ Step(r, "parse")
    /\ UNCHANGED <<NOTION_WEBHOOK_VERIFICATION_TOKEN, rawBody, headerSignature,
                   notionData, fetched, existing, calls, items, sigVars>>

\* line 42: body = JSON.parse(rawBody); a SyntaxError is not caught
Parse(r) ==
    /\ pc[r] = "parse"
    /\ Scheduled(r)
    /\ LET p == JSONparse(rawBody[r])
       IN  IF p.ok
           THEN /\ body' = [body EXCEPT ![r] = p.val]
                /\ Goto(r, "route")
                /\ UNCHANGED response
           ELSE /\ Goto(r, "fault")
                /\ Respond(r, Fault)
                /\ UNCHANGED body
    /\ Step(r, "parse")
    /\ UNCHANGED <<NOTION_WEBHOOK_VERIFICATION_TOKEN, rawBody, headerSignature,
                   notionData, fetched, existing, calls, items, sigVars>>

\* the handshake taken for every body with a token, whatever the header
RouteTokenOnly(r) ==
    /\ pc[r] = "route"
    /\ Scheduled(r)
    /\ LET tok == VerificationTokenOf(body[r])
       IN  IF ~Falsy(tok)
           THEN /\ Goto(r, "done")
                /\ IF /\ NOTION_WEBHOOK_VERIFICATION_TOKEN # ""
                      /\ DiffersFrom(tok, NOTION_WEBHOOK_VERIFICATION_TOKEN)
                   THEN Respond(r, TextResponse(401, "Verification token mismatch"))
                   ELSE Respond(r, JsonResponse(SuccessBody))
                /\ Step(r, "handshake")
           ELSE /\ Goto(r, "verify")
                /\ UNCHANGED response
                /\ Step(r, "route")
    /\ UNCHANGED <<NOTION_WEBHOOK_VERIFICATION_TOKEN, rawBody, headerSignature,
                   body, notionData, fetched, existing, calls, items, sigVars>>

\* the handshake that compares the token also with an empty secret
RouteAlwaysCompares(r) ==
    /\ pc[r] = "route"
    /\ Scheduled(r)
    /\ LET tok == VerificationTokenOf(body[r])
       IN  IF HeaderMissing(headerSignature[r]) /\ ~Falsy(tok)
           THEN /\ Goto(r, "done")
                /\ IF DiffersFrom(tok, NOTION_WEBHOOK_VERIFICATION_TOKEN)
                   THEN Respond(r, TextResponse(401, "Verification token mismatch"))
                   ELSE Respond(r, JsonResponse(SuccessBody))
                /\ Step(r, "handshake")
           ELSE /\ Goto(r, "verify")
                /\ UNCHANGED response
                /\ Step(r, "route")
    /\ UNCHANGED <<NOTION_WEBHOOK_VERIFICATION_TOKEN, rawBody, headerSignature,
                   body, notionData, fetched, existing, calls, items, sigVars>>

\* lines 49-58: the subscription verification handshake
Route(r) ==
    /\ pc[r] = "route"
    /\ Scheduled(r)
    /\ LET tok == VerificationTokenOf(body[r])
       IN  IF HeaderMissing(headerSignature[r]) /\ ~Falsy(tok)
           THEN /\ Goto(r, "done")
                /\ IF /\ NOTION_WEBHOOK_VERIFICATION_TOKEN # ""
                      /\ DiffersFrom(tok, NOTION_WEBHOOK_VERIFICATION_TOKEN)
                   THEN Respond(r, TextResponse(401, "Verification token mismatch"))
                   ELSE Respond(r, JsonResponse(SuccessBody))
                /\ Step(r, "handshake")
           ELSE /\ Goto(r, "verify")
                /\ UNCHANGED response
                /\ Step(r, "route")
    /\ UNCHANGED <<NOTION_WEBHOOK_VERIFICATION_TOKEN, rawBody, headerSignature,
                   body, notionData, fetched, existing, calls, items, sigVars>>

\* the signature check without the return of line 62: the handler goes on
VerifyNoReturn(r) ==
    /\ pc[r] = "verify"
    /\ Scheduled(r)
    /\ Goto(r, "derive")
    /\ IF isValidSignature(rawBody[r], headerSignature[r],
                           NOTION_WEBHOOK_VERIFICATION_TOKEN)
       THEN Step(r, "verified")
       ELSE Step(r, "rejected")
    /\ UNCHANGED <<NOTION_WEBHOOK_VERIFICATION_TOKEN, rawBody, headerSignature,
                   body, notionData, fetched, existing, calls, response, items,
                   sigVars>>

\* lines 60-63: the signature check
Verify(r) ==
    /\ pc[r] = "verify"
    /\ Scheduled(r)
    /\ IF isValidSignature(rawBody[r], headerSignature[r],
                           NOTION_WEBHOOK_VERIFICATION_TOKEN)
       THEN /\ Goto(r, "derive")
            /\ UNCHANGED response
            /\ Step(r, "verified")
       ELSE /\ Goto(r, "done")
            /\ Respond(r, TextResponse(401, "Invalid signature"))
            /\ Step(r, "rejected")
    /\ UNCHANGED <<NOTION_WEBHOOK_VERIFICATION_TOKEN, rawBody, headerSignature,
                   body, notionData, fetched, existing, calls, items, sigVars>>

\* the derivation followed by a return when slug or title is missing
DeriveSkipsIncomplete(r) ==
    /\ pc[r] = "derive"
    /\ Scheduled(r)
    /\ LET d == DeriveNotionData(body[r])
       IN  IF d.threw
           THEN /\ Goto(r, "fault")
                /\ Respond(r, Fault)
                /\ UNCHANGED notionData
           ELSE /\ notionData' = [notionData EXCEPT ![r] = d]
                /\ IF Falsy(d.slug) \/ Falsy(d.title)
                   THEN Goto(r, "done") /\ Respond(r, JsonResponse(SuccessBody))
                   ELSE Goto(r, "upsert") /\ UNCHANGED response
    /\ Step(r, "derive")
    /\ UNCHANGED <<NOTION_WEBHOOK_VERIFICATION_TOKEN, rawBody, headerSignature,
                   body, fetched, existing, calls, items, sigVars>>

\* the lookup issued before the record is derived
DeriveAfterLookup(r) ==
    /\ pc[r] = "derive"
    /\ Scheduled(r)
    /\ LET d == DeriveNotionData(body[r])
       IN  IF d.threw
           THEN /\ Goto(r, "fault")
                /\ Respond(r, Fault)
                /\ calls' = [calls EXCEPT ![r] = Append(@, GetCall("undefined"))]
                /\ UNCHANGED notionData
           ELSE /\ notionData' = [notionData EXCEPT ![r] = d]
                /\ Goto(r, "upsert")
                /\ UNCHANGED <<response, calls>>
    /\ Step(r, "derive")
    /\ UNCHANGED <<NOTION_WEBHOOK_VERIFICATION_TOKEN, rawBody, headerSignature,
                   body, fetched, existing, items, sigVars>>

\* lines 65-70: the derived record; a TypeError is not caught
Derive(r) ==
    /\ pc[r] = "derive"
    /\ Scheduled(r)
    /\ LET d == DeriveNotionData(body[r])
       IN  IF d.threw
           THEN /\ Goto(r, "fault")
                /\ Respond(r, Fault)
                /\ UNCHANGED notionData
           ELSE /\ notionData' = [notionData EXCEPT ![r] = d]
                /\ Goto(r, "upsert")
                /\ UNCHANGED response
    /\ Step(r, "derive")
    /\ UNCHANGED <<NOTION_WEBHOOK_VERIFICATION_TOKEN, rawBody, headerSignature,
                   body, fetched, existing, calls, items, sigVars>>

\* lines 73-81 and 89-101: updateOrCreateWebflowItem issues the lookup
IssueLookup(r) ==
    /\ pc[r] = "upsert"
    /\ Scheduled(r)
    /\ calls' = [calls EXCEPT ![r] =
                    Append(@, GetCall(TemplateString(notionData[r].slug)))]
    /\ Goto(r, "lookup")
    /\ Step(r, "GET")
    /\ UNCHANGED <<NOTION_WEBHOOK_VERIFICATION_TOKEN, rawBody, headerSignature,
                   body, notionData, fetched, existing, response, items,
                   sigVars>>

\* what the lookup can be answered with: the items with the slug, an error
\* status with an error body, a body that is not JSON, a body without items,
\* or a body whose items is not an array
LookupAnswers(store, slugParam) ==
    {Answer(TRUE, TRUE, ListResponse(store, slugParam)),
     Answer(FALSE, TRUE, ErrorResponse),
     Answer(FALSE, FALSE, Undefined),
     Answer(TRUE, TRUE, EmptyObject),
     Answer(TRUE, TRUE, Obj("items" :> Str("none")))}

\* a lookup whose result is overridden by an identifier kept from an earlier
\* request for the slug: one that an accepted POST of the slug was answered
\* with
LookupReturnRemembered(r) ==
    /\ pc[r] = "lookup"
    /\ Scheduled(r)
    /\ \E ans \in LookupAnswers(items, calls[r][Len(calls[r])].slug) :
       LET kept == {Get(fetched[q].json, "id").v : q \in
                       {q \in Requests \ {r} :
                           /\ pc[q] = "done"
                           /\ Len(calls[q]) = 2
                           /\ calls[q][2].method = "POST"
                           /\ calls[q][1].slug = calls[r][Len(calls[r])].slug
                           /\ fetched[q].ok
                           /\ fetched[q].decodable}}
           call == IF kept = {} THEN WriteCall(DecodeJson(ans), notionData[r])
                   ELSE PatchCall(CHOOSE n \in kept : TRUE,
                                  WritePayload(notionData[r]))
       IN  /\ fetched' = [fetched EXCEPT ![r] = ans]
           /\ existing' = [existing EXCEPT ![r] = DecodeJson(ans)]
           /\ calls' = [calls EXCEPT ![r] = Append(@, call)]
           /\ Step(r, call.method)
    /\ Goto(r, "write")
    /\ UNCHANGED <<NOTION_WEBHOOK_VERIFICATION_TOKEN, rawBody, headerSignature,
                   body, notionData, response, items, sigVars>>

\* the write issued without await: the handler answers at once
LookupReturnDetached(r) ==
    /\ pc[r] = "lookup"
    /\ Scheduled(r)
    /\ \E ans \in LookupAnswers(items, calls[r][Len(calls[r])].slug) :
          /\ fetched' = [fetched EXCEPT ![r] = ans]
          /\ existing' = [existing EXCEPT ![r] = DecodeJson(ans)]
          /\ calls' = [calls EXCEPT ![r] =
                          Append(@, WriteCall(DecodeJson(ans), notionData[r]))]
          /\ steps' = [steps EXCEPT ![r] =
                          @ \o <<WriteCall(DecodeJson(ans), notionData[r]).method,
                                 "respond">>]
    /\ Respond(r, JsonResponse(ProcessedBody(EmptyObject)))
    /\ Goto(r, "done")
    /\ UNCHANGED <<NOTION_WEBHOOK_VERIFICATION_TOKEN, rawBody, headerSignature,
                   body, notionData, items, sigVars>>

\* lines 102-127 and 135-151: the lookup returns, its body is decoded and
\* the write is issued
LookupReturn(r) ==
    /\ pc[r] = "lookup"
    /\ Scheduled(r)
    /\ \E ans \in LookupAnswers(items, calls[r][Len(calls[r])].slug) :
          /\ fetched' = [fetched EXCEPT ![r] = ans]
          /\ existing' = [existing EXCEPT ![r] = DecodeJson(ans)]
          /\ calls' = [calls EXCEPT ![r] =
                          Append(@, WriteCall(DecodeJson(ans), notionData[r]))]
          /\ Step(r, WriteCall(DecodeJson(ans), notionData[r]).method)
    /\ Goto(r, "write")
    /\ UNCHANGED <<NOTION_WEBHOOK_VERIFICATION_TOKEN, rawBody, headerSignature,
                   body, notionData, response, items, sigVars>>

\* the remote can accept a write unless it is a PATCH of an unknown item
CanAccept(store, call) ==
    call.method = "POST" \/ Exists(store, call.itemId)
\* the collection after the remote accepted the write
Applied(store, call) ==
    IF call.method = "PATCH" THEN ApplyPatch(store, call.itemId, call.payload)
    ELSE ApplyPost(store, call.payload)
\* the body of the answer to an accepted write
AcceptedResponse(store, call) ==
    IF call.method = "PATCH" THEN ItemResponse(call.itemId)
    ELSE ItemResponse(MaxId(store) + 1)
\* what a write is answered with once the remote accepted or refused it
WriteAnswers(store, call, accepted) ==
    {Answer(accepted, TRUE, IF accepted THEN AcceptedResponse(store, call)
                            ELSE ErrorResponse),
     Answer(accepted, FALSE, Undefined)}

\* line 83
ProcessedResponse(webflowResponse) ==
    JsonResponse(ProcessedBody(webflowResponse))

\* a write that is issued once more after a first refusal
WriteReturnRetry(r) ==
    /\ pc[r] = "write"
    /\ Scheduled(r)
    /\ LET call == calls[r][Len(calls[r])]
       IN  \E accepted \in {a \in BOOLEAN : a => CanAccept(items, call)} :
           \E ans \in WriteAnswers(items, call, accepted) :
              /\ items' = IF accepted THEN Applied(items, call) ELSE items
              /\ fetched' = [fetched EXCEPT ![r] = ans]
              /\ IF ~accepted /\ Len(calls[r]) = 2
                 THEN /\ calls' = [calls EXCEPT ![r] = Append(@, call)]
                      /\ Step(r, call.method)
                      /\ UNCHANGED <<pc, response>>
                 ELSE /\ Respond(r, ProcessedResponse(DecodeJson(ans)))
                      /\ Goto(r, "done")
                      /\ Step(r, "respond")
                      /\ UNCHANGED calls
    /\ UNCHANGED <<NOTION_WEBHOOK_VERIFICATION_TOKEN, rawBody, headerSignature,
                   body, notionData, existing, sigVars>>

\* an update that is followed by a create of the same record
WriteReturnCreatesToo(r) ==
    /\ pc[r] = "write"
    /\ Scheduled(r)
    /\ LET call == calls[r][Len(calls[r])]
       IN  \E accepted \in {a \in BOOLEAN : a => CanAccept(items, call)} :
           \E ans \in WriteAnswers(items, call, accepted) :
              /\ items' = IF ~accepted THEN items
                          ELSE IF call.method = "PATCH"
                               THEN ApplyPost(Applied(items, call), call.payload)
                               ELSE Applied(items, call)
              /\ fetched' = [fetched EXCEPT ![r] = ans]
              /\ Respond(r, ProcessedResponse(DecodeJson(ans)))
    /\ Goto(r, "done")
    /\ Step(r, "respond")
    /\ UNCHANGED <<NOTION_WEBHOOK_VERIFICATION_TOKEN, rawBody, headerSignature,
                   body, notionData, existing, calls, sigVars>>

\* lines 128-132 or 152-156, then line 83: the write returns, its body is
\* decoded and the handler answers
WriteReturn(r) ==
    /\ pc[r] = "write"
    /\ Scheduled(r)
    /\ LET call == calls[r][Len(calls[r])]
       IN  \E accepted \in {a \in BOOLEAN : a => CanAccept(items, call)} :
           \E ans \in WriteAnswers(items, call, accepted) :
              /\ items' = IF accepted THEN Applied(items, call) ELSE items
              /\ fetched' = [fetched EXCEPT ![r] = ans]
              /\ Respond(r, ProcessedResponse(DecodeJson(ans)))
    /\ Goto(r, "done")
    /\ Step(r, "respond")
    /\ UNCHANGED <<NOTION_WEBHOOK_VERIFICATION_TOKEN, rawBody, headerSignature,
                   body, notionData, existing, calls, sigVars>>

\* a rejected fetch caught like an undecodable body: {} stands for the answer
FetchFailsCaught(r) ==
    /\ pc[r] \in {"lookup", "write"}
    /\ Scheduled(r)
    /\ IF pc[r] = "lookup"
       THEN /\ existing' = [existing EXCEPT ![r] = EmptyObject]
            /\ calls' = [calls EXCEPT ![r] =
                            Append(@, WriteCall(EmptyObject, notionData[r]))]
            /\ Goto(r, "write")
            /\ UNCHANGED <<response, items>>
       ELSE /\ LET call == calls[r][Len(calls[r])]
               IN  \E accepted \in {a \in BOOLEAN : a => CanAccept(items, call)} :
                      items' = IF accepted THEN Applied(items, call) ELSE items
            /\ Respond(r, ProcessedResponse(EmptyObject))
            /\ Goto(r, "done")
            /\ UNCHANGED <<existing, calls>>
    /\ Step(r, "throw")
    /\ UNCHANGED <<NOTION_WEBHOOK_VERIFICATION_TOKEN, rawBody, headerSignature,
                   body, notionData, fetched, sigVars>>

\* fetch rejects (a transport failure); nothing catches it.  A write that
\* failed this way may or may not have reached the collection
FetchFails(r) ==
    /\ pc[r] \in {"lookup", "write"}
    /\ Scheduled(r)
    /\ LET call == calls[r][Len(calls[r])]
       IN  \E accepted \in {a \in BOOLEAN :
                              a => pc[r] = "write" /\ CanAccept(items, call)} :
              items' = IF accepted THEN Applied(items, call) ELSE items
    /\ Goto(r, "fault")
    /\ Respond(r, Fault)
    /\ Step(r, "throw")
    /\ UNCHANGED <<NOTION_WEBHOOK_VERIFICATION_TOKEN, rawBody, headerSignature,
                   body, notionData, fetched, existing, calls, sigVars>>

Next ==
    \E r \in Requests :
        \/ Receive(r)
        \/ Parse(r)
        \/ Route(r)
        \/ Verify(r)
        \/ Derive(r)
        \/ IssueLookup(r)
        \/ LookupReturn(r)
        \/ WriteReturn(r)
        \/ FetchFails(r)

Spec == Init /\ [][Next]_vars

TypeOK ==
    /\ NOTION_WEBHOOK_VERIFICATION_TOKEN \in Secrets
    /\ \A r \in Requests :
          pc[r] \in {"idle", "parse", "route", "verify", "derive", "upsert",
                     "lookup", "write", "done", "fault"}

-----------------------------------------------------------------------------
(* The handler when things keep moving: the event loop runs every    *)
(* statement that is ready, and every fetch is settled in the end, by *)
(* an answer or by a rejection.  Nothing makes a request arrive.      *)

\* request r leaves the statement it is at.  The first disjunct is one way
\* of leaving that is written out in full (what an exception does), so that
\* whether leaving is possible is told without running the statement; every
\* step of r in LiveNext satisfies the second.
Leaves(r) ==
    \/ /\ pc' = [pc EXCEPT ![r] = "fault"]
       /\ UNCHANGED <<NOTION_WEBHOOK_VERIFICATION_TOKEN, rawBody,
                      headerSignature, body, notionData, fetched, existing,
                      calls, response, steps, items, sigVars>>
    \/ pc'[r] # pc[r]
\* a statement of request r that waits for nothing runs: lines 42-101
Proceeds(r) ==
    /\ pc[r] \in {"parse", "route", "verify", "derive", "upsert"}
    /\ Scheduled(r)
    /\ Leaves(r)
\* a fetch of request r settles, by an answer or by a rejection
Settles(r) ==
    /\ pc[r] \in {"lookup", "write"}
    /\ Scheduled(r)
    /\ Leaves(r)

\* the requests that arrive here: an event, a handshake, a body that faults
\* in the derivation and one that faults in the parse, each with its
\* signature or without a header
LiveBodies == {BodyHello, BodyToken("shh"), BodyNoName, BodyTruncated}
LiveReceive(r) ==
    /\ pc[r] = "idle"
    /\ Scheduled(r)
    /\ \A q \in Requests : q < r => pc[q] # "idle"
    /\ \E raw \in LiveBodies :
       \E hdr \in {NullHeader, Header(SenderSignature(raw, "shh"))} :
          /\ rawBody' = [rawBody EXCEPT ![r] = raw]
          /\ headerSignature' = [headerSignature EXCEPT ![r] = hdr]
    /\ Goto(r, "parse")
    /\ Step(r, "text")
    /\ UNCHANGED <<NOTION_WEBHOOK_VERIFICATION_TOKEN, body, notionData,
                   fetched, existing, calls, response, items, sigVars>>

LiveNext ==
    \E r \in Requests :
        \/ LiveReceive(r)
        \/ Parse(r)
        \/ Route(r)
        \/ Verify(r)
        \/ Derive(r)
        \/ IssueLookup(r)
        \/ LookupReturn(r)
        \/ WriteReturn(r)
        \/ FetchFails(r)

LiveSpec ==
    /\ Init
    /\ [][LiveNext]_vars
    /\ \A r \in Requests : WF_vars(Proceeds(r)) /\ WF_vars(Settles(r))

-----------------------------------------------------------------------------
(* The handler with a collection that others change too: between two *)
(* requests an item may be removed from it                           *)

\* store without its i-th item
Without(store, i) == SubSeq(store, 1, i - 1) \o SubSeq(store, i + 1, Len(store))

\* somebody removes an item while no request is being handled and a request
\* is still to come
RemoteRemoves ==
    /\ \A r \in Requests : pc[r] \in {"idle", "done", "fault"}
    /\ \E r \in Requests : pc[r] = "idle"
    /\ \E i \in 1..Len(items) : items' = Without(items, i)
    /\ UNCHANGED <<NOTION_WEBHOOK_VERIFICATION_TOKEN, pc, rawBody,
                   headerSignature, body, notionData, fetched, existing, calls,
                   response, steps, sigVars>>

RemoveNext == Next \/ RemoteRemoves

RemoveSpec == Init /\ [][RemoveNext]_vars

-----------------------------------------------------------------------------
(* The handler with one request at a time and a collection that answers *)
(* faithfully: the lookup returns the items with the slug, a write is   *)
(* applied, no fetch fails                                              *)

\* a request arrives once the ones before it are over
SeqReceive(r) ==
    /\ \A q \in Requests \ {r} : pc[q] \in {"idle", "done", "fault"}
    /\ Receive(r)

\* the lookup is answered with exactly the items that have the slug
FaithfulLookup(r) ==
    /\ LookupReturn(r)
    /\ fetched'[r] = Answer(TRUE, TRUE,
                            ListResponse(items, calls[r][Len(calls[r])].slug))

\* the write is applied and answered with the item
FaithfulWrite(r) ==
    /\ WriteReturn(r)
    /\ fetched'[r] = Answer(TRUE, TRUE,
                            AcceptedResponse(items, calls[r][Len(calls[r])]))

SeqNext ==
    \E r \in Requests :
        \/ SeqReceive(r)
        \/ Parse(r)
        \/ Route(r)
        \/ Verify(r)
        \/ Derive(r)
        \/ IssueLookup(r)
        \/ FaithfulLookup(r)
        \/ FaithfulWrite(r)

SeqSpec == Init /\ [][SeqNext]_vars

-----------------------------------------------------------------------------
(* The handler with requests that overlap, a collection that holds one *)
(* item with slug hello and a lookup that is always answered with the  *)
(* items of the slug; a write may be applied, refused or lost          *)

ConcNext ==
    \E r \in Requests :
        \/ Receive(r)
        \/ Parse(r)
        \/ Route(r)
        \/ Verify(r)
        \/ Derive(r)
        \/ IssueLookup(r)
        \/ FaithfulLookup(r)
        \/ WriteReturn(r)
        \/ pc[r] = "write" /\ FetchFails(r)

ConcInit == Init /\ items = <<OldItem>>
ConcSpec == ConcInit /\ [][ConcNext]_vars

-----------------------------------------------------------------------------
(* The signature functions on their own: a body is signed, then the body or *)
(* the header may be changed in one place, then isValidSignature is applied *)

SigSecrets == {"", "shh", "bad"}
SigBytes == {"{", " ", "p1"}
ShortBodies == UNION {[1..n -> SigBytes] : n \in 0..MaxBodyLen}
\* the characters a header is changed to: 0 1 a f = s and e-acute
SigChars == {48, 49, 97, 102, 61, 115, 233}

SigInit ==
    /\ NOTION_WEBHOOK_VERIFICATION_TOKEN \in SigSecrets
    /\ pc = [r \in Requests |-> "idle"]
    /\ rawBody = [r \in Requests |-> <<>>]
    /\ headerSignature = [r \in Requests |-> NullHeader]
    /\ body = [r \in Requests |-> Undefined]
    /\ notionData = [r \in Requests |-> NoData]
    /\ fetched = [r \in Requests |-> NoAnswer]
    /\ existing = [r \in Requests |-> Undefined]
    /\ calls = [r \in Requests |-> <<>>]
    /\ response = [r \in Requests |-> NoResponse]
    /\ steps = [r \in Requests |-> <<>>]
    /\ items = <<>>
    /\ sBody \in ShortBodies
    /\ sHeader = NullHeader
    /\ sMut = "none"
    /\ sResult = "unset"

\* the sender signs the body with the configured secret
SigSign ==
    /\ sResult = "unset"
    /\ ~sHeader.present
    /\ sHeader' = Header(SenderSignature(
                             sBody, NOTION_WEBHOOK_VERIFICATION_TOKEN))
    /\ UNCHANGED <<NOTION_WEBHOOK_VERIFICATION_TOKEN, handlerVars, sBody,
                   sMut, sResult>>

\* one byte of the body changes on the way
SigChangeBody ==
    /\ sResult = "unset"
    /\ sHeader.present
    /\ sMut = "none"
    /\ \E i \in 1..Len(sBody) : \E b \in SigBytes \ {sBody[i]} :
          sBody' = ReplaceAt(sBody, i, b)
    /\ sMut' = "body"
    /\ UNCHANGED <<NOTION_WEBHOOK_VERIFICATION_TOKEN, handlerVars, sHeader,
                   sResult>>

\* one character of the header changes on the way
SigChangeHeader ==
    /\ sResult = "unset"
    /\ sHeader.present
    /\ sMut = "none"
    /\ \E i \in 1..Len(sHeader.val) : \E c \in SigChars \ {sHeader.val[i]} :
          sHeader' = Header(ReplaceAt(sHeader.val, i, c))
    /\ sMut' = "header"
    /\ UNCHANGED <<NOTION_WEBHOOK_VERIFICATION_TOKEN, handlerVars, sBody,
                   sResult>>

\* the receiver applies isValidSignature
SigVerify ==
    /\ sResult = "unset"
    /\ sResult' = IF isValidSignature(sBody, sHeader,
                                      NOTION_WEBHOOK_VERIFICATION_TOKEN)
                  THEN "valid" ELSE "invalid"
    /\ UNCHANGED <<NOTION_WEBHOOK_VERIFICATION_TOKEN, handlerVars, sBody,
                   sHeader, sMut>>

SigNext == SigSign \/ SigChangeBody \/ SigChangeHeader \/ SigVerify

SigSpec == SigInit /\ [][SigNext]_vars

-----------------------------------------------------------------------------
(* Properties *)

secret == NOTION_WEBHOOK_VERIFICATION_TOKEN
Finished(r) == pc[r] \in {"done", "fault"}
\* the positions of steps[r] that hold one of names
Positions(r, names) == {i \in 1..Len(steps[r]) : steps[r][i] \in names}
Did(r, name) == Positions(r, {name}) # {}
\* the outbound calls of request r with the given method
CallsOf(r, method) == {i \in 1..Len(calls[r]) : calls[r][i].method = method}
Outbound == {"GET", "PATCH", "POST"}
InvalidSignature == TextResponse(401, "Invalid signature")
TokenMismatch == TextResponse(401, "Verification token mismatch")
HandshakeOk == JsonResponse(SuccessBody)

\* the signature of every body of the model under every secret, as bytes
SignatureBytes ==
    [raw \in RawBodies |-> [key \in Secrets |->
        BufferFrom(SenderSignature(raw, key))]]
\* the bytes of the expected signature and of the header of request r
ExpectedBytes(r) == SignatureBytes[rawBody[r]][secret]
HeaderBytes(r) == BufferFrom(headerSignature[r].val)

\* C1: fail closed.  Every outbound call of a request comes after a
\* successful signature verification within that request, the request's body
\* and header do verify under the configured secret, and a request that ended
\* in 401 or in the handshake 200 has issued no outbound call.
C1_FailClosed ==
    \A r \in Requests :
        /\ calls[r] # <<>> =>
              /\ secret # ""
              /\ headerSignature[r].present
              /\ HeaderBytes(r) = ExpectedBytes(r)
        /\ \A j \in Positions(r, Outbound) :
              \E i \in Positions(r, {"verified"}) : i < j
        /\ Len(calls[r]) = Cardinality(Positions(r, Outbound))
        /\ (response[r].status = 401 \/ response[r] = HandshakeOk) =>
              calls[r] = <<>>
\* one request has issued its lookup and its write, another ended in 401
C1_Witness ==
    \E r, q \in Requests :
        /\ Len(calls[r]) = 2
        /\ response[q].status = 401

\* one of the four reasons of the claim holds for request r
SignatureFails(r) ==
    \/ ~headerSignature[r].present
    \/ secret = ""
    \/ LET a == ExpectedBytes(r)
           b == HeaderBytes(r)
       IN  \/ Len(b) # Len(a)
           \/ \E i \in 1..Len(a) : b[i] # a[i]

\* C2: on the event-delivery path (the handshake branch was not taken and the
\* signature check has run), a missing header, an empty secret, a header of
\* another length or with another byte gives 401 "Invalid signature".
C2_InvalidSignature401 ==
    \A r \in Requests :
        (Did(r, "route") /\ pc[r] # "verify" /\ SignatureFails(r)) =>
            /\ response[r] = InvalidSignature
            /\ pc[r] = "done"
\* a header of the right length with another byte was answered with 401
C2_Witness ==
    \E r \in Requests :
        /\ headerSignature[r].present
        /\ secret # ""
        /\ Len(HeaderBytes(r)) = Len(ExpectedBytes(r))
        /\ HeaderBytes(r) # ExpectedBytes(r)
        /\ response[r] = InvalidSignature

\* C3: a body signed with a non-empty secret verifies, and after a change of
\* one byte of the body or of one character of the header it does not.
C3_SignRoundTrip ==
    (sResult # "unset" /\ sHeader.present /\ secret # "") =>
        /\ sMut = "none" => sResult = "valid"
        /\ sMut # "none" => sResult = "invalid"
\* a body changed in one byte after signing was refused
C3_Witness ==
    /\ secret # ""
    /\ sMut = "body"
    /\ sResult = "invalid"

\* C4 as stated: with an empty secret every request that carries a signature
\* header ends in 401 "Invalid signature", whatever the header and the body.
C4_Original ==
    secret = "" =>
        \A r \in Requests :
            (headerSignature[r].present /\ Finished(r)) =>
                response[r] = InvalidSignature
\* C4 as amended: with an empty secret no request passes the signature check
\* or issues an outbound call; a request with a non-empty header ends in 401
\* "Invalid signature" unless its body is not JSON, in which case it faulted
\* in JSON.parse.
C4_EmptySecretRejects ==
    secret = "" =>
        \A r \in Requests :
            /\ ~Did(r, "verified")
            /\ calls[r] = <<>>
            /\ (~HeaderMissing(headerSignature[r]) /\ Finished(r)) =>
                  \/ response[r] = InvalidSignature
                  \/ /\ response[r] = Fault
                     /\ ~JSONparse(rawBody[r]).ok
\* the signature a sender computes with the empty key was refused
C4_Witness ==
    /\ secret = ""
    /\ \E r \in Requests :
          /\ rawBody[r] = BodyHello
          /\ headerSignature[r].present
          /\ HeaderBytes(r) = ExpectedBytes(r)
          /\ response[r] = InvalidSignature

\* the body of request r is an object with a verification_token member
HasToken(r) == body[r].t = "obj" /\ "verification_token" \in DOMAIN body[r].v
TokenOf(r) == body[r].v["verification_token"]

\* C5 as stated: without a header and with a verification_token in the body,
\* a token equal to the secret gives 200 {success:true}, an empty or
\* different token gives 401.
C5_Original ==
    \A r \in Requests :
        (Finished(r) /\ ~headerSignature[r].present /\ HasToken(r)
                     /\ TokenOf(r).t = "str") =>
            /\ TokenOf(r).v = secret => response[r] = HandshakeOk
            /\ (TokenOf(r).v = "" \/ TokenOf(r).v # secret) =>
                  response[r].status = 401
\* C5 as amended: the comparison with the secret is made only for a non-empty
\* secret.  An empty token gives 401; a non-empty token gives 200
\* {success:true} when it equals the secret or when the secret is empty, and
\* 401 "Verification token mismatch" otherwise.
C5_Handshake ==
    \A r \in Requests :
        (Finished(r) /\ ~headerSignature[r].present /\ HasToken(r)
                     /\ TokenOf(r).t = "str") =>
            IF TokenOf(r).v = "" THEN response[r] = InvalidSignature
            ELSE IF secret = "" \/ TokenOf(r).v = secret
                 THEN response[r] = HandshakeOk
            ELSE response[r] = TokenMismatch
\* a token that differs from the configured secret was answered with 401
C5_Witness ==
    /\ secret = "shh"
    /\ \E r \in Requests :
          /\ ~headerSignature[r].present
          /\ HasToken(r)
          /\ TokenOf(r) = Str("bad")
          /\ response[r] = TokenMismatch

\* the items list the lookup of request r returned, if it returned one
ReturnedList(r) == Get(existing[r], "items").t = "arr"
ReturnedItems(r) == Get(existing[r], "items").v

\* C6: after a lookup that returned a non-empty items list the request has
\* issued exactly one PATCH, addressed to the first returned item, and no
\* POST.
C6_ExistingIsPatched ==
    \A r \in Requests :
        (ReturnedList(r) /\ Len(ReturnedItems(r)) > 0) =>
            /\ Cardinality(CallsOf(r, "PATCH")) = 1
            /\ CallsOf(r, "POST") = {}
            /\ \A i \in CallsOf(r, "PATCH") :
                  ItemId(calls[r][i].itemId) = Get(ReturnedItems(r)[1], "_id")
\* a request whose lookup found an item has been answered
C6_Witness ==
    \E r \in Requests :
        /\ ReturnedList(r)
        /\ Len(ReturnedItems(r)) > 0
        /\ CallsOf(r, "PATCH") # {}
        /\ pc[r] = "done"

\* C7: after a lookup that returned an empty items list the request has
\* issued exactly one POST and no PATCH.
C7_MissingIsCreated ==
    \A r \in Requests :
        (ReturnedList(r) /\ Len(ReturnedItems(r)) = 0) =>
            /\ Cardinality(CallsOf(r, "POST")) = 1
            /\ CallsOf(r, "PATCH") = {}
\* a request whose lookup found nothing has been answered
C7_Witness ==
    \E r \in Requests :
        /\ ReturnedList(r)
        /\ Len(ReturnedItems(r)) = 0
        /\ CallsOf(r, "POST") # {}
        /\ pc[r] = "done"

\* C8: once the write has returned an HTTP answer the handler answers 200
\* with success true and webflowResponse the decoded body of that answer, or
\* {} when the body is not JSON, whatever the status of the answer; and a
\* verified request that completes without a fault completes this way.
C8_AlwaysSuccess ==
    \A r \in Requests :
        /\ Did(r, "respond") =>
              /\ Did(r, "verified")
              /\ pc[r] = "done"
              /\ response[r].kind = "json"
              /\ response[r].status = 200
              /\ response[r].json =
                    Obj(("success" :> TRUE) @@
                        ("webflowResponse" :>
                            IF fetched[r].decodable THEN fetched[r].json
                            ELSE EmptyObject))
        /\ (Did(r, "verified") /\ pc[r] = "done") => Did(r, "respond")
\* a write refused with an error body was answered with 200
C8_Witness ==
    \E r \in Requests :
        /\ Did(r, "respond")
        /\ ~fetched[r].ok
        /\ fetched[r].decodable
        /\ response[r].status = 200

\* what every body of the model parses to
Parsed == [raw \in RawBodies |-> JSONparse(raw)]

\* C9: the signature is taken over the raw body.  A header that is the
\* signature of another body with the same JSON value is refused, and no
\* call is made.
C9_RawBodySigned ==
    \A r \in Requests : \A raw \in RawBodies \ {rawBody[r]} :
        (/\ secret # ""
         /\ Did(r, "route")
         /\ pc[r] # "verify"
         /\ headerSignature[r].present
         /\ HeaderBytes(r) = SignatureBytes[raw][secret]
         /\ Parsed[raw].ok
         /\ Parsed[raw].val = body[r]) =>
            /\ response[r] = InvalidSignature
            /\ calls[r] = <<>>
\* the body with whitespace, sent with the signature of the body without,
\* was refused
C9_Witness ==
    /\ secret = "shh"
    /\ \E r \in Requests :
          /\ rawBody[r] = BodyHelloSpaced
          /\ HeaderBytes(r) = SignatureBytes[BodyHello][secret]
          /\ body[r] = Parsed[BodyHello].val
          /\ response[r] = InvalidSignature

\* the write of request r was a POST of a record with slug s that the remote
\* accepted, after a lookup that found nothing
CreatedAfterMiss(r, s) ==
    /\ notionData[r].slug = Str(s)
    /\ ReturnedList(r)
    /\ Len(ReturnedItems(r)) = 0
    /\ CallsOf(r, "POST") # {}
    /\ Did(r, "respond")
    /\ fetched[r].ok

\* C10: the lookup and the write are not one step.  When two requests for
\* one slug each looked the slug up, found nothing and had their POST
\* accepted, the collection holds at least two items with that slug.
C10_RaceDuplicates ==
    \A r, q \in Requests :
        (r # q /\ notionData[r].slug.t = "str"
               /\ CreatedAfterMiss(r, notionData[r].slug.v)
               /\ CreatedAfterMiss(q, notionData[r].slug.v)) =>
            Len(Matching(items, notionData[r].slug.v)) >= 2
\* two requests for the slug hello both missed it and both created it
C10_Witness ==
    \E r, q \in Requests :
        /\ r # q
        /\ CreatedAfterMiss(r, "hello")
        /\ CreatedAfterMiss(q, "hello")
        /\ Len(Matching(items, "hello")) = 2

\* every step of request r named in later comes after a step named in earlier
Before(r, earlier, later) ==
    \A j \in Positions(r, later) : \E i \in Positions(r, earlier) : i < j

\* C11: within one request the signature is verified, then the body is
\* parsed, then the lookup is issued, then the write: no parse before the
\* signature has been verified, no lookup before the parse, no write before
\* the lookup.
C11_Original ==
    \A r \in Requests :
        /\ Before(r, {"verified"}, {"parse"})
        /\ Before(r, {"parse"}, {"GET"})
        /\ Before(r, {"GET"}, {"PATCH", "POST"})

\* C12: a request whose body is not JSON ends in an unhandled fault at the
\* parse, whatever its header, without a response and without an outbound
\* call.
C12_BadJsonFaults ==
    \A r \in Requests :
        (Did(r, "parse") /\ ~Parsed[rawBody[r]].ok) =>
            /\ pc[r] = "fault"
            /\ response[r] = Fault
            /\ steps[r] = <<"text", "parse">>
            /\ calls[r] = <<>>
\* truncated bodies faulted with no header, with their own signature and with
\* the signature of another body
C12_Witness ==
    /\ secret = "shh"
    /\ \E r, q \in Requests :
          /\ rawBody[r] = BodyTruncated
          /\ rawBody[q] = BodyTruncated
          /\ headerSignature[r].present
          /\ HeaderBytes(r) = ExpectedBytes(r)
          /\ headerSignature[q].present
          /\ HeaderBytes(q) # ExpectedBytes(q)
          /\ response[r] = Fault
          /\ response[q] = Fault

\* the parsed body of request r has no properties.Name
NameMissing(r) == Nullish(Get(Get(body[r], "properties"), "Name"))
\* the parsed body of request r is an object without properties
PropertiesMissing(r) ==
    ~Nullish(body[r]) /\ Nullish(Get(body[r], "properties"))

\* C13 as stated: a verified request whose body has no properties.Name ends
\* in an unhandled fault.
C13_Original ==
    \A r \in Requests :
        (Did(r, "verified") /\ Finished(r) /\ NameMissing(r)) =>
            response[r] = Fault
\* C13 as amended: a verified request whose body has a properties object
\* without Name faults when the record is derived, with no response and no
\* outbound call; a body without properties does not fault there: every
\* field but id is undefined and the lookup is issued.
C13_NameMissingThrows ==
    \A r \in Requests :
        (Did(r, "derive") /\ NameMissing(r)) =>
            IF PropertiesMissing(r)
            THEN /\ notionData[r] = [NoData EXCEPT !.id = Get(body[r], "pageId")]
                 /\ pc[r] # "upsert" => Did(r, "GET")
                 /\ response[r] = Fault => Did(r, "throw")
            ELSE /\ Did(r, "verified")
                 /\ pc[r] = "fault"
                 /\ response[r] = Fault
                 /\ steps[r][Len(steps[r])] = "derive"
                 /\ calls[r] = <<>>
\* a signed body with properties {} faulted
C13_Witness ==
    \E r \in Requests :
        /\ rawBody[r] = BodyNoName
        /\ Did(r, "verified")
        /\ response[r] = Fault

\* the step of request r before its last one
Previous(r) == steps[r][Len(steps[r]) - 1]

\* C14: a rejected fetch is not caught.  The request ends there in an
\* unhandled fault with no response, and it makes no further call: after a
\* failed lookup its only call is the GET, after a failed write its calls are
\* the GET and that write.
C14_FetchFailurePropagates ==
    \A r \in Requests :
        Did(r, "throw") =>
            /\ pc[r] = "fault"
            /\ response[r] = Fault
            /\ steps[r][Len(steps[r])] = "throw"
            /\ Cardinality(Positions(r, {"throw"})) = 1
            /\ ~Did(r, "respond")
            /\ IF Previous(r) = "GET"
               THEN Len(calls[r]) = 1 /\ calls[r][1].method = "GET"
               ELSE /\ Previous(r) \in {"PATCH", "POST"}
                    /\ Len(calls[r]) = 2
                    /\ calls[r][1].method = "GET"
                    /\ calls[r][2].method = Previous(r)
\* one request failed at its lookup and another at its write
C14_Witness ==
    \E r, q \in Requests :
        /\ Did(r, "throw")
        /\ Previous(r) = "GET"
        /\ Did(q, "throw")
        /\ Previous(q) \in {"PATCH", "POST"}

\* C15: no retries.  A request issues at most one GET and at most one write,
\* a PATCH or a POST and never both, whatever the remote answered.
C15_NoRetries ==
    \A r \in Requests :
        /\ Cardinality(CallsOf(r, "GET")) <= 1
        /\ Cardinality(CallsOf(r, "PATCH")) + Cardinality(CallsOf(r, "POST")) <= 1
        /\ Len(calls[r]) <= 2
        /\ Cardinality(Positions(r, Outbound)) = Len(calls[r])
\* a request whose lookup got an error body and whose write was refused with
\* an undecodable body has made two calls and was answered
C15_Witness ==
    \E r \in Requests :
        /\ existing[r] = ErrorResponse
        /\ Did(r, "respond")
        /\ ~fetched[r].ok
        /\ ~fetched[r].decodable
        /\ Len(calls[r]) = 2

\* the run list of property prop in the parsed body of request r
RunList(r, prop, list) == Get(Get(Get(body[r], "properties"), prop), list)
\* the plain_text of the first run of that list, undefined without one
FirstRunText(r, prop, list) ==
    IF RunList(r, prop, list).t = "arr" /\ Len(RunList(r, prop, list).v) > 0
    THEN Get(RunList(r, prop, list).v[1], "plain_text")
    ELSE Undefined
\* property prop is absent, or it holds a run list (which may be empty)
AbsentOrRuns(r, prop, list) ==
    \/ Nullish(Get(Get(body[r], "properties"), prop))
    \/ RunList(r, prop, list).t = "arr"
\* the derivation of request r threw
DeriveFaulted(r) ==
    response[r] = Fault /\ steps[r][Len(steps[r])] = "derive"

\* C16: the record derived for a verified event is id = pageId and title,
\* slug, content = the plain_text of the first run of Name.title,
\* Slug.rich_text, Content.rich_text.  With a Name that has a title list, an
\* absent Slug or Content or an empty run list gives an undefined field and
\* no failure; the body of page p1 named Hello with slug hello and no
\* Content gives {id: p1, title: Hello, slug: hello, content: undefined}.
C16_DerivedRecord ==
    \A r \in Requests :
        Did(r, "derive") =>
            /\ Did(r, "verified")
            /\ ~DeriveFaulted(r) =>
                  notionData[r] =
                      [threw |-> FALSE,
                       id |-> Get(body[r], "pageId"),
                       title |-> FirstRunText(r, "Name", "title"),
                       slug |-> FirstRunText(r, "Slug", "rich_text"),
                       content |-> FirstRunText(r, "Content", "rich_text")]
            /\ (/\ RunList(r, "Name", "title").t = "arr"
                /\ AbsentOrRuns(r, "Slug", "rich_text")
                /\ AbsentOrRuns(r, "Content", "rich_text")) => ~DeriveFaulted(r)
            /\ rawBody[r] = BodyHello =>
                  notionData[r] =
                      [threw |-> FALSE, id |-> Str("p1"), title |-> Str("Hello"),
                       slug |-> Str("hello"), content |-> Undefined]
\* the example body gave the example record, and a body with empty run lists
\* gave undefined title and slug and went on to the lookup
C16_Witness ==
    \E r, q \in Requests :
        /\ rawBody[r] = BodyHello
        /\ notionData[r].title = Str("Hello")
        /\ notionData[r].content = Undefined
        /\ rawBody[q] = BodyEmptyRuns
        /\ Did(q, "GET")
        /\ notionData[q].title = Undefined
        /\ notionData[q].slug = Undefined

\* headers as long in bytes as sHeader that differ from it in one character
SameLengthHeaders ==
    {h \in {ReplaceAt(sHeader.val, i, c) :
                i \in 1..Len(sHeader.val), c \in SigChars} :
        Len(BufferFrom(h)) = Len(BufferFrom(sHeader.val))}

TookHandshake(r) == Did(r, "handshake")
TookVerification(r) == Did(r, "verified") \/ Did(r, "rejected")
\* the parsed body of request r has a non-empty verification_token
NonEmptyToken(r) ==
    HasToken(r) /\ TokenOf(r).t = "str" /\ TokenOf(r).v # ""

\* C18 as stated: every request takes exactly one of the two paths, the
\* handshake exactly when the header is absent and the body has a non-empty
\* verification_token, and the signature verification otherwise.
C18_Original ==
    \A r \in Requests :
        Finished(r) =>
            /\ TookHandshake(r) # TookVerification(r)
            /\ TookHandshake(r) <=>
                  (~headerSignature[r].present /\ NonEmptyToken(r))
\* C18 as amended: a request whose body is JSON takes exactly one of the two
\* paths, the handshake exactly when the header is absent or the empty
\* string and the body has a non-empty verification_token, and the signature
\* verification otherwise; a request whose body is not JSON takes neither.
C18_TwoPaths ==
    \A r \in Requests :
        Finished(r) =>
            IF Parsed[rawBody[r]].ok
            THEN /\ TookHandshake(r) # TookVerification(r)
                 /\ TookHandshake(r) <=>
                       /\ ~headerSignature[r].present
                             \/ headerSignature[r].val = <<>>
                       /\ NonEmptyToken(r)
            ELSE ~TookHandshake(r) /\ ~TookVerification(r)
\* a body whose token equals the secret came with a signature header and
\* went through the signature verification
C18_Witness ==
    /\ secret = "shh"
    /\ \E r \in Requests :
          /\ rawBody[r] = BodyToken("shh")
          /\ headerSignature[r].present
          /\ headerSignature[r].val # <<>>
          /\ TookVerification(r)
          /\ ~TookHandshake(r)
          /\ Finished(r)

\* C19: a handshake request (no header, non-empty verification_token) is
\* answered {success: true} for every token when the secret is empty; the
\* token is compared with the secret only when the secret is not empty, and
\* then a token that differs is answered with the mismatch.  No call is made.
C19_HandshakeWithoutSecret ==
    \A r \in Requests :
        (Finished(r) /\ ~headerSignature[r].present /\ NonEmptyToken(r)) =>
            /\ steps[r] = <<"text", "parse", "handshake">>
            /\ calls[r] = <<>>
            /\ secret = "" => response[r] = HandshakeOk
            /\ secret # "" =>
                  response[r] = IF TokenOf(r).v = secret THEN HandshakeOk
                                ELSE TokenMismatch
\* with an empty secret two handshakes with different tokens both succeeded
C19_Witness ==
    /\ secret = ""
    /\ \E r, q \in Requests :
          /\ rawBody[r] = BodyToken("bad")
          /\ rawBody[q] = BodyToken("shh")
          /\ ~headerSignature[r].present
          /\ ~headerSignature[q].present
          /\ response[r] = HandshakeOk
          /\ response[q] = HandshakeOk

\* the record of request r was derived without slug or without title
Incomplete(r) ==
    /\ Did(r, "derive")
    /\ ~DeriveFaulted(r)
    /\ Falsy(notionData[r].slug) \/ Falsy(notionData[r].title)

\* C20: a verified event whose derived slug or title is empty or undefined
\* is not skipped.  It never ends without a lookup and a write, and unless a
\* fetch was rejected it ends with the lookup, one PATCH or POST and the 200
\* answer {success: true, webflowResponse}.
C20_IncompleteNotSkipped ==
    \A r \in Requests :
        (Incomplete(r) /\ Finished(r)) =>
            /\ Did(r, "verified")
            /\ Did(r, "GET")
            /\ calls[r][1] = GetCall(TemplateString(notionData[r].slug))
            /\ ~Did(r, "throw") =>
                  /\ Len(calls[r]) = 2
                  /\ calls[r][2].method \in {"PATCH", "POST"}
                  /\ calls[r][2].payload = WritePayload(notionData[r])
                  /\ response[r].status = 200
                  /\ response[r].kind = "json"
                  /\ DOMAIN response[r].json.v = {"success", "webflowResponse"}
                  /\ response[r].json.v["success"] = TRUE
\* an event with the empty slug and an event without title and slug were
\* both written and answered
C20_Witness ==
    \E r, q \in Requests :
        /\ rawBody[r] = BodyEmptySlug
        /\ notionData[r].slug = Str("")
        /\ rawBody[q] = BodyEmptyRuns
        /\ notionData[q].title = Undefined
        /\ Did(r, "respond")
        /\ Did(q, "respond")
        /\ response[r].status = 200
        /\ response[q].status = 200

\* the positions of the writes among the calls of request r
Writes(r) == CallsOf(r, "PATCH") \cup CallsOf(r, "POST")
\* the field of the derived record that is sent under key k
SentAs(r, k) ==
    IF k = "name" THEN notionData[r].title
    ELSE IF k = "slug" THEN notionData[r].slug
    ELSE notionData[r].content
\* the item of the collection with identifier n
ItemsWithId(n) == {i \in 1..Len(items) : items[i].id = n}

\* C21: PATCH and POST send the same body, {isArchived: false, isDraft:
\* false, fieldData: {name: title, slug, content}} with the fields of the
\* derived record that are defined; the pageId is in no outbound request; an
\* item whose write was accepted is neither archived nor a draft.
C21_SameWriteBody ==
    \A r \in Requests :
        /\ \A i \in Writes(r) :
              /\ calls[r][i].payload.isArchived = FALSE
              /\ calls[r][i].payload.isDraft = FALSE
              /\ DOMAIN calls[r][i].payload.fieldData =
                    {k \in {"name", "slug", "content"} :
                        SentAs(r, k).t # "undefined"}
              /\ \A k \in DOMAIN calls[r][i].payload.fieldData :
                    /\ calls[r][i].payload.fieldData[k] = SentAs(r, k)
                    /\ calls[r][i].payload.fieldData[k] # notionData[r].id
        /\ \A i \in CallsOf(r, "GET") :
              /\ calls[r][i].payload = NoPayload
              /\ notionData[r].id.t = "str" =>
                    calls[r][i].slug # notionData[r].id.v
        /\ (Did(r, "respond") /\ fetched[r].ok /\ fetched[r].decodable) =>
              \A n \in ItemsWithId(Get(fetched[r].json, "id").v) :
                  ~items[n].isArchived /\ ~items[n].isDraft
\* the same event was created by one request and updated by another with
\* the same body, and the item is no draft
C21_Witness ==
    \E r, q \in Requests :
        /\ rawBody[r] = BodyWorld
        /\ rawBody[q] = BodyWorld
        /\ Did(r, "respond")
        /\ Did(q, "respond")
        /\ calls[r][2].method = "POST"
        /\ calls[q][2].method = "PATCH"
        /\ calls[r][2].payload = calls[q][2].payload
        /\ fetched[q].ok
        /\ \A n \in ItemsWithId(calls[q][2].itemId) : ~items[n].isDraft

\* what request r was given: its body, its header and what the remote
\* answered or failed to answer
GivenTo(r) ==
    [raw |-> rawBody[r], hdr |-> headerSignature[r], lookup |-> existing[r],
     last |-> fetched[r], rejected |-> Did(r, "throw")]
\* what request r did
OutcomeOf(r) ==
    [response |-> response[r], calls |-> calls[r], data |-> notionData[r],
     steps |-> steps[r]]

\* C22: no state is kept between requests.  Two finished requests that were
\* given the same body, header and remote answers did the same, whatever
\* came before them; whether a request is verified depends on its own body
\* and header and the secret only, so no handshake is needed before an
\* event and none relaxes a later check; and a PATCH goes to the first item
\* of the request's own lookup, never to an identifier kept from before.
C22_Stateless ==
    \A r \in Requests :
        /\ \A q \in Requests :
              (Finished(r) /\ Finished(q) /\ GivenTo(r) = GivenTo(q)) =>
                  OutcomeOf(r) = OutcomeOf(q)
        /\ TookVerification(r) =>
              (Did(r, "verified") <=>
                  /\ secret # ""
                  /\ headerSignature[r].present
                  /\ HeaderBytes(r) = ExpectedBytes(r))
        /\ \A i \in CallsOf(r, "PATCH") :
              /\ ReturnedList(r)
              /\ Len(ReturnedItems(r)) > 0
              /\ ItemId(calls[r][i].itemId) = Get(ReturnedItems(r)[1], "_id")
\* an event created the item of slug hello, the item was removed, and the
\* same event handled again looked the slug up, found nothing and created
\* the item again: both creations were answered with the same identifier
C22_Witness ==
    \E r, q \in Requests :
        /\ r < q
        /\ rawBody[r] = BodyHello
        /\ rawBody[q] = BodyHello
        /\ ~Did(1, "handshake")
        /\ CreatedAfterMiss(r, "hello")
        /\ CreatedAfterMiss(q, "hello")
        /\ fetched[r].decodable
        /\ fetched[q] = fetched[r]
        /\ Len(Matching(items, "hello")) = 1

\* the four ways a request ends
Outcomes(r) ==
    {o \in {"handshake", "401", "processed", "fault"} :
        \/ o = "handshake" /\ response[r] = HandshakeOk
        \/ o = "401" /\ response[r].status = 401
        \/ o = "processed" /\ response[r].kind = "json"
                           /\ "webflowResponse" \in DOMAIN response[r].json.v
        \/ o = "fault" /\ response[r] = Fault}

\* C23: the handler waits for each fetch, without a timeout.  While a fetch
\* of a request is unsettled the request has no outcome and it moves on only
\* by that fetch settling; the processed answer is produced in the step in
\* which the write settles; a finished request has exactly one outcome; and
\* when every fetch settles, every request that arrived ends.
C23_BlocksUntilSettled ==
    /\ [](\A r \in Requests :
            /\ pc[r] \in {"lookup", "write"} => response[r] = NoResponse
            /\ Finished(r) => Cardinality(Outcomes(r)) = 1
            /\ ~Finished(r) => Outcomes(r) = {})
    /\ [][\A r \in Requests :
            /\ (pc[r] = "lookup" /\ pc'[r] # "lookup") =>
                  \/ pc'[r] = "write" /\ existing'[r] = DecodeJson(fetched'[r])
                  \/ pc'[r] = "fault" /\ steps'[r] = Append(steps[r], "throw")
            /\ (pc[r] = "write" /\ pc'[r] # "write") =>
                  \/ pc'[r] = "done" /\ steps'[r] = Append(steps[r], "respond")
                  \/ pc'[r] = "fault" /\ steps'[r] = Append(steps[r], "throw")
            /\ ("processed" \in Outcomes(r)' /\ Outcomes(r) = {}) =>
                  pc[r] = "write"]_vars
    /\ \A r \in Requests : (pc[r] # "idle") ~> Finished(r)
\* one request was answered after its write settled while the other waits
\* for its lookup without an outcome
C23_Witness ==
    \E r, q \in Requests :
        /\ Did(r, "respond")
        /\ Outcomes(r) = {"processed"}
        /\ pc[q] = "lookup"
        /\ Outcomes(q) = {}

-----------------------------------------------------------------------------
\* C24: with one request at a time and a collection that answers faithfully,
\* no slug ever has more than one item (the collection starts with at most
\* one per slug).  When the same verified event with non-empty slug and title
\* was handled twice, the slug has exactly one item; if the first handling
\* found no item it issued a POST, and the second issued a PATCH to the item
\* that POST created.
C24_SequentialIdempotent ==
    /\ \A s \in {"hello"} \cup {calls[r][1].slug :
                                   r \in {q \in Requests : calls[q] # <<>>}} :
          Len(Matching(items, s)) <= 1
    /\ \A r, q \in Requests :
          (/\ r < q
           /\ rawBody[r] = rawBody[q]
           /\ Did(r, "respond") /\ Did(q, "respond")
           /\ Did(r, "GET") /\ Did(q, "GET")
           /\ ~Incomplete(r))
          => LET now == Matching(items, notionData[r].slug.v)
             IN  /\ Len(now) = 1
                 /\ calls[q][2].method = "PATCH"
                 /\ ItemId(calls[q][2].itemId) = Get(now[1], "_id")
                 /\ Len(ReturnedItems(r)) = 0
                       => /\ calls[r][2].method = "POST"
                          /\ calls[q][2].itemId
                                = Get(fetched[r].json, "id").v

C24_Witness ==
    \E r, q \in Requests :
        /\ r < q
        /\ rawBody[r] = rawBody[q]
        /\ Did(r, "respond") /\ Did(q, "respond")
        /\ ~Incomplete(r)
        /\ Len(ReturnedItems(r)) = 0
        /\ calls[r][2].method = "POST"
        /\ calls[q][2].method = "PATCH"
        /\ Len(Matching(items, notionData[r].slug.v)) = 1

-----------------------------------------------------------------------------
\* C25: a lookup that does not yield a non-empty items array counts as
\* not found.  While the write of a request is out, the answer its lookup got
\* is fetched[r]: when that answer had an error status, or a body that is not
\* JSON (decoded as {}), or no items, or items that is not an array, or an
\* empty items array, the write is a POST; and a request whose lookup
\* yielded no non-empty items array never issues a PATCH, whether or not the
\* collection holds the slug.
C25_FailedLookupCreates ==
    \A r \in Requests :
        /\ pc[r] = "write"
              => /\ existing[r] = IF fetched[r].decodable THEN fetched[r].json
                                  ELSE EmptyObject
                 /\ (\/ ~fetched[r].ok
                     \/ ~fetched[r].decodable
                     \/ Get(fetched[r].json, "items").t # "arr"
                     \/ Get(fetched[r].json, "items").v = <<>>)
                       => calls[r][2].method = "POST"
        /\ (Len(calls[r]) >= 2
             /\ ~(ReturnedList(r) /\ Len(ReturnedItems(r)) > 0))
              => /\ CallsOf(r, "PATCH") = {}
                 /\ CallsOf(r, "POST") = {2}

\* the collection holds the slug, the lookup failed, and a second item with
\* the slug was created
C25_Witness ==
    \E r \in Requests :
        /\ Did(r, "respond")
        /\ existing[r] \in {ErrorResponse, EmptyObject}
        /\ CallsOf(r, "POST") = {2}
        /\ fetched[r].ok
        /\ Len(Matching(items, calls[r][1].slug)) = 2
        /\ \A q \in Requests \ {r} : pc[q] = "idle"
-----------------------------------------------------------------------------
\* C26: a fault in the derivation comes before any outbound call.  A verified
\* body whose properties lack Name (or its title), or hold Slug or Content
\* without a rich_text list, makes the derivation throw; a request whose
\* derivation threw has issued no GET, PATCH or POST, the step that throws
\* leaves the collection as it is, and the collection only changes by the
\* write of a request that is waiting for it.
C26_DeriveFaultBeforeCalls ==
    /\ [](\A r \in Requests :
            /\ (/\ Did(r, "derive")
                /\ ~PropertiesMissing(r)
                /\ \/ NameMissing(r)
                   \/ \E k \in {"Slug", "Content"} :
                         /\ ~Nullish(Get(Get(body[r], "properties"), k))
                         /\ Nullish(RunList(r, k, "rich_text")))
                  => DeriveFaulted(r)
            /\ DeriveFaulted(r)
                  => /\ Did(r, "verified")
                     /\ calls[r] = <<>>
                     /\ Positions(r, Outbound) = {}
                     /\ fetched[r] = NoAnswer)
    /\ [][\A r \in Requests :
            /\ (pc[r] = "derive" /\ pc'[r] = "fault") => items' = items
            /\ DeriveFaulted(r) => DeriveFaulted(r)' /\ calls'[r] = <<>>]_vars
    /\ [][items' # items
            => \E r \in Requests :
                  /\ pc[r] = "write"
                  /\ pc'[r] # "write"
                  /\ ~DeriveFaulted(r)]_vars

\* one request faulted on Slug without rich_text, the other on Content
\* without rich_text, and the item of the collection is as it was
C26_Witness ==
    /\ items = <<OldItem>>
    /\ \E r, q \in Requests :
          /\ DeriveFaulted(r) /\ rawBody[r] = BodySlugNoRuns
          /\ DeriveFaulted(q) /\ rawBody[q] = BodyContentNoRuns
-----------------------------------------------------------------------------
\* C27: the relay issues GET, PATCH and POST only, and a request at most one
\* write.  No step of the relay makes the collection shorter; a step makes it
\* longer by at most one item, and only the step that ends the POST of a
\* request, which is then over; the step that ends a PATCH leaves the number
\* of items as it is.  The collection, which starts with at most one item,
\* never holds more than one item beyond the requests that issued a POST.
C27_CountNeverDecreases ==
    /\ [](\A r \in Requests :
            /\ \A i \in 1..Len(calls[r]) : calls[r][i].method \in Outbound
            /\ Cardinality(Writes(r)) <= 1
            /\ Cardinality(Positions(r, Outbound)) = Len(calls[r]))
    /\ [](Len(items) <= 1 + Cardinality({r \in Requests :
                                           CallsOf(r, "POST") # {}}))
    /\ [][/\ Len(items') >= Len(items)
          /\ Len(items') <= Len(items) + 1
          /\ \A r \in Requests :
                (/\ pc[r] = "write"
                 /\ pc'[r] # "write"
                 /\ calls[r][Len(calls[r])].method = "PATCH")
                  => Len(items') = Len(items)
          /\ Len(items') > Len(items)
                => \E r \in Requests :
                      /\ pc[r] = "write"
                      /\ pc'[r] \in {"done", "fault"}
                      /\ calls[r][Len(calls[r])].method = "POST"]_vars

\* an accepted update and an accepted create: one item more than at the start
C27_Witness ==
    \E r, q \in Requests :
        /\ Did(r, "respond") /\ CallsOf(r, "PATCH") # {} /\ fetched[r].ok
        /\ Did(q, "respond") /\ CallsOf(q, "POST") # {} /\ fetched[q].ok
        /\ Len(items) = 2
-----------------------------------------------------------------------------
====
